---- MODULE Spec2Model ----
(***************************************************************************)
(* The font installer of font-installer/fontofx.py: extract_zip,           *)
(* install_font, select_fonts_gui, select_fonts_cli and main, as one state *)
(* machine.  Text is modelled as sequences of one-character strings, so    *)
(* strip, lower, split, endswith and int are computed character by         *)
(* character, the way the Python built-ins compute them.                   *)
(***************************************************************************)
EXTENDS Integers, Sequences, FiniteSets, TLC

(* ---------------------------------------------------------------- bounds *)

\* The largest number of entries of an archive under SpecExtract.
MaxEntries == 3
\* The largest number of pool lines joined into one typed selection line.
MaxJoined == 1
\* The largest number of fonts of an archive under SpecSelect.
MaxFonts == 3
\* The largest number of rejected lines at the interactive selection prompt.
MaxRetries == 2

(* ------------------------------------------------------ Python built-ins *)

UpperCase == <<"A", "B", "C", "D", "E", "F", "L", "N", "O", "Q", "S", "T", "X", "Y">>
LowerCase == <<"a", "b", "c", "d", "e", "f", "l", "n", "o", "q", "s", "t", "x", "y">>
Digits    == <<"0", "1", "2", "3", "4", "5", "6", "7", "8", "9">>

\* str.lower() on one character.
LowerChar(c) ==
    IF \E i \in 1..Len(UpperCase) : UpperCase[i] = c
    THEN LowerCase[CHOOSE i \in 1..Len(UpperCase) : UpperCase[i] = c]
    ELSE c

\* str.lower()
Lower(s) == [i \in 1..Len(s) |-> LowerChar(s[i])]

IsSpace(c) == c = " "

\* str.strip(): leading and trailing whitespace removed.
RECURSIVE LStrip(_)
LStrip(s) == IF s # <<>> /\ IsSpace(Head(s)) THEN LStrip(Tail(s)) ELSE s

RECURSIVE RStrip(_)
RStrip(s) ==
    IF s # <<>> /\ IsSpace(s[Len(s)]) THEN RStrip(SubSeq(s, 1, Len(s) - 1)) ELSE s

Strip(s) == RStrip(LStrip(s))

\* str.startswith(prefix) / str.endswith(suffix)
StartsWith(s, p) == Len(s) >= Len(p) /\ SubSeq(s, 1, Len(p)) = p

EndsWith(s, suf) ==
    Len(s) >= Len(suf) /\ SubSeq(s, Len(s) - Len(suf) + 1, Len(s)) = suf

\* `c in s`
Contains(s, c) == \E i \in 1..Len(s) : s[i] = c

\* str.split(sep) for a one-character separator: "" splits to [""].
RECURSIVE Split(_, _)
Split(s, sep) ==
    IF ~Contains(s, sep) THEN <<s>>
    ELSE LET i == CHOOSE k \in 1..Len(s) :
                      s[k] = sep /\ \A j \in 1..(k - 1) : s[j] # sep
         IN  <<SubSeq(s, 1, i - 1)>> \o Split(SubSeq(s, i + 1, Len(s)), sep)

DigitValue(c) == (CHOOSE i \in 1..Len(Digits) : Digits[i] = c) - 1

IsDigit(c) == \E i \in 1..Len(Digits) : Digits[i] = c

\* int(s) raises ValueError unless s, stripped of surrounding whitespace, is a
\* non-empty run of digits (no sign or underscore is in the typed alphabet,
\* and a "-" never reaches int: the part is split on it first).
IntRaises(s) ==
    LET t == Strip(s) IN t = <<>> \/ \E i \in 1..Len(t) : ~IsDigit(t[i])

RECURSIVE DigitsValue(_)
DigitsValue(t) ==
    IF t = <<>> THEN 0
    ELSE 10 * DigitsValue(SubSeq(t, 1, Len(t) - 1)) + DigitValue(t[Len(t)])

IntValue(s) == DigitsValue(Strip(s))

\* list(range(a, b + 1))
RangeList(a, b) == IF b < a THEN <<>> ELSE [i \in 1..(b - a + 1) |-> a + i - 1]

RECURSIVE Flatten(_)
Flatten(ss) == IF ss = <<>> THEN <<>> ELSE Head(ss) \o Flatten(Tail(ss))

(* ----------------------------------------------------------- extraction *)

DOT == "."

\* FONT_EXTENSIONS
FONT_EXTENSIONS ==
    << <<DOT, "t", "t", "f">>, <<DOT, "o", "t", "f">>,
       <<DOT, "t", "t", "c">>, <<DOT, "d", "f", "o", "n", "t">> >>

\* A mutant of is_font_file: the extension is compared without lower().
IsFontFileCaseSensitive(filename) ==
    \E k \in 1..Len(FONT_EXTENSIONS) : EndsWith(filename, FONT_EXTENSIONS[k])

\* is_font_file(filename)
is_font_file(filename) ==
    \E k \in 1..Len(FONT_EXTENSIONS) : EndsWith(Lower(filename), FONT_EXTENSIONS[k])

\* The root of the scratch directory, as a path of components.
TempRoot == << <<"t", "m", "p">> >>

\* One candidate of font_files: {'path': os.path.join(root, file), 'name': file},
\* for the extracted file whose path relative to the scratch directory is rel.
FontEntry(rel) == [path |-> TempRoot \o rel, name |-> rel[Len(rel)]]

\* All orderings of a finite set, as sequences.
Orderings(S) ==
    {w \in [1..Cardinality(S) -> S] : \A i, j \in 1..Cardinality(S) : i # j => w[i] # w[j]}

DirOf(rel) == SubSeq(rel, 1, Len(rel) - 1)

IsProperPrefix(d, e) == Len(d) < Len(e) /\ SubSeq(e, 1, Len(d)) = d

\* os.walk(extract_dir), top-down: the files of a directory come before those
\* of the directories below it, the files of one directory come together,
\* and the order inside a directory is the file system's (any).
WalkOrders(files) ==
    {w \in Orderings(files) :
        \A i, j \in 1..Len(w) :
            i < j =>
                /\ ~IsProperPrefix(DirOf(w[j]), DirOf(w[i]))
                /\ (DirOf(w[i]) = DirOf(w[j]) =>
                        \A k \in i..j : DirOf(w[k]) = DirOf(w[i]))}

RECURSIVE SelectSeq2(_, _)
\* [x for x in w if keep(x)], for a predicate given as a set.
SelectSeq2(w, keep) ==
    IF w = <<>> THEN <<>>
    ELSE (IF Head(w) \in keep THEN <<Head(w)>> ELSE <<>>) \o SelectSeq2(Tail(w), keep)

\* The scan of extract_zip (lines 62-69) over one os.walk order of the
\* extracted files.
ScanFonts(walk) ==
    LET fonts == {rel \in {walk[i] : i \in 1..Len(walk)} : is_font_file(rel[Len(rel)])}
        kept  == SelectSeq2(walk, fonts)
    IN  [i \in 1..Len(kept) |-> FontEntry(kept[i])]

(* ------------------------------------------------------------ selection *)

COMMA == ","
DASH  == "-"

Q_LINE   == <<"q">>
ALL_LINE == <<"a", "l", "l">>

\* One comma-separated part (lines 232-238): the 1-based numbers it adds to
\* selected_indices, or ValueError.  `start, end = map(int, part.split('-'))`
\* raises ValueError unless the split gives exactly two pieces, both ints.
PartRaises(part) ==
    IF Contains(part, DASH)
    THEN LET pieces == Split(part, DASH)
         IN  Len(pieces) # 2 \/ IntRaises(pieces[1]) \/ IntRaises(pieces[2])
    ELSE IntRaises(part)

PartIndices(part) ==
    IF Contains(part, DASH)
    THEN LET pieces == Split(part, DASH)
         IN  RangeList(IntValue(pieces[1]), IntValue(pieces[2]))
    ELSE <<IntValue(part)>>

\* Lines 228-238 (and 416-423): whether parsing the line raises ValueError.
ParseRaises(selection) ==
    LET parts == Split(selection, COMMA)
    IN  \E k \in 1..Len(parts) : PartRaises(parts[k])

\* Lines 228-241 (and 416-426): selected_indices, converted to 0-based.
SelectedIndices(selection) ==
    LET parts == Split(selection, COMMA)
        typed == Flatten([k \in 1..Len(parts) |-> PartIndices(parts[k])])
    IN  [k \in 1..Len(typed) |-> typed[k] - 1]

\* Line 242 (and 427): any(idx < 0 or idx >= len(font_files) ...)
OutOfBounds(indices, n) ==
    \E k \in 1..Len(indices) : indices[k] < 0 \/ indices[k] >= n

\* Line 247 (and 431): [font_files[idx] for idx in selected_indices]
PickFonts(fonts, indices) == [k \in 1..Len(indices) |-> fonts[indices[k] + 1]]

\* A mutant of one pass of the loop: an out-of-bounds line returns no fonts
\* instead of prompting again.
CliPassNoRetry(fonts, line) ==
    LET sel == Lower(Strip(line)) IN
    IF sel = Q_LINE THEN [kind |-> "return", fonts |-> <<>>, said |-> "none"]
    ELSE IF sel = ALL_LINE THEN [kind |-> "return", fonts |-> fonts, said |-> "none"]
    ELSE IF ParseRaises(sel)
         THEN [kind |-> "again", fonts |-> <<>>, said |-> "invalid_input"]
    ELSE IF OutOfBounds(SelectedIndices(sel), Len(fonts))
         THEN [kind |-> "return", fonts |-> <<>>, said |-> "invalid_selection"]
    ELSE [kind |-> "return", fonts |-> PickFonts(fonts, SelectedIndices(sel)),
          said |-> "none"]

\* One pass of the loop of select_fonts_cli (lines 219-250) on the line input()
\* returned: the function returns a list, or prints an error and goes round.
CliPass(fonts, line) ==
    LET sel == Lower(Strip(line)) IN
    IF sel = Q_LINE THEN [kind |-> "return", fonts |-> <<>>, said |-> "none"]
    ELSE IF sel = ALL_LINE THEN [kind |-> "return", fonts |-> fonts, said |-> "none"]
    ELSE IF ParseRaises(sel)
         THEN [kind |-> "again", fonts |-> <<>>, said |-> "invalid_input"]
    ELSE IF OutOfBounds(SelectedIndices(sel), Len(fonts))
         THEN [kind |-> "again", fonts |-> <<>>, said |-> "invalid_selection"]
    ELSE [kind |-> "return", fonts |-> PickFonts(fonts, SelectedIndices(sel)),
          said |-> "none"]

\* A mutant of the piped branch: a line that does not parse selects nothing.
PipedPassNoFallback(fonts, line) ==
    LET sel == Strip(line) IN
    IF sel = ALL_LINE THEN [fonts |-> fonts, said |-> "none"]
    ELSE IF sel = Q_LINE THEN [fonts |-> <<>>, said |-> "none"]
    ELSE IF ParseRaises(sel) THEN [fonts |-> <<>>, said |-> "piped_invalid_input"]
    ELSE IF OutOfBounds(SelectedIndices(sel), Len(fonts))
         THEN [fonts |-> fonts, said |-> "piped_invalid_selection"]
    ELSE [fonts |-> PickFonts(fonts, SelectedIndices(sel)), said |-> "none"]

\* A mutant of the piped branch: "q" is not recognised.
PipedPassNoQuit(fonts, line) ==
    LET sel == Strip(line) IN
    IF sel = ALL_LINE THEN [fonts |-> fonts, said |-> "none"]
    ELSE IF ParseRaises(sel) THEN [fonts |-> fonts, said |-> "piped_invalid_input"]
    ELSE IF OutOfBounds(SelectedIndices(sel), Len(fonts))
         THEN [fonts |-> fonts, said |-> "piped_invalid_selection"]
    ELSE [fonts |-> PickFonts(fonts, SelectedIndices(sel)), said |-> "none"]

\* The piped branch of main (lines 408-434) on the line readline() returned
\* ("" at end of input): the line is stripped but not lower-cased.
PipedPass(fonts, line) ==
    LET sel == Strip(line) IN
    IF sel = ALL_LINE THEN [fonts |-> fonts, said |-> "none"]
    ELSE IF sel = Q_LINE THEN [fonts |-> <<>>, said |-> "none"]
    ELSE IF ParseRaises(sel) THEN [fonts |-> fonts, said |-> "piped_invalid_input"]
    ELSE IF OutOfBounds(SelectedIndices(sel), Len(fonts))
         THEN [fonts |-> fonts, said |-> "piped_invalid_selection"]
    ELSE [fonts |-> PickFonts(fonts, SelectedIndices(sel)), said |-> "none"]

(* --------------------------------------------------------------- inputs *)

\* File names an archive entry may have.
F_A_TTF   == <<"a", DOT, "t", "t", "f">>
F_B_OTF   == <<"B", DOT, "O", "T", "F">>
F_C_TTC   == <<"c", DOT, "T", "t", "c">>
F_D_DFONT == <<"d", DOT, "d", "f", "o", "n", "t">>
F_N_TXT   == <<"n", DOT, "t", "x", "t">>
F_TTF     == <<"t", "t", "f">>
F_X_TTF_X == <<"x", DOT, "t", "t", "f", DOT, "x">>

FileNames == {F_A_TTF, F_B_OTF, F_C_TTC, F_D_DFONT, F_N_TXT, F_TTF, F_X_TTF_X}

\* Directories of an archive, relative to its root; the deepest one has a
\* name that ends in a font extension.
D_SUB  == <<"s">>
D_DEEP == <<"o", DOT, "t", "t", "f">>

DirNames == {<<>>, <<D_SUB>>, <<D_SUB, D_DEEP>>}

EntryPaths == {d \o <<f>> : d \in DirNames, f \in FileNames}

\* The sets of at most n elements of S.
RECURSIVE SubsetsUpTo(_, _)
SubsetsUpTo(S, n) ==
    IF n = 0 THEN {{}}
    ELSE LET smaller == SubsetsUpTo(S, n - 1)
         IN  smaller \cup {T \cup {x} : T \in smaller, x \in S}

\* The file at zip_path: a ZIP archive with its file entries (pairwise
\* distinct paths), a file that is not a ZIP archive, or an archive whose
\* extraction fails with an I/O error after `done` was written.
ZipArchive(entries) == [kind |-> "zip", entries |-> entries, done |-> entries]
NotAZip             == [kind |-> "notzip", entries |-> {}, done |-> {}]
BrokenZip(entries, done) == [kind |-> "ioerror", entries |-> entries, done |-> done]

Archives ==
    {ZipArchive(e) : e \in SubsetsUpTo(EntryPaths, MaxEntries)}
        \cup {NotAZip}
        \cup {BrokenZip({<<F_A_TTF>>, <<D_SUB, F_B_OTF>>}, d) :
                d \in {{}, {<<F_A_TTF>>}}}

\* The archives of a whole run of main.
MainArchives ==
    { ZipArchive({}),
      ZipArchive({<<F_N_TXT>>, <<D_SUB, D_DEEP, F_TTF>>}),
      ZipArchive({<<F_A_TTF>>}),
      ZipArchive({<<F_A_TTF>>, <<F_N_TXT>>, <<D_SUB, F_B_OTF>>}),
      NotAZip,
      BrokenZip({<<F_A_TTF>>, <<D_SUB, F_B_OTF>>}, {<<F_A_TTF>>}) }

\* Lines an operator may type at the selection prompt.
TypedPool ==
    { <<"0">>, <<"1">>, <<"2">>, <<"3">>, <<"4">>, <<"1", "2">>, <<"0", "2">>,
      <<"1", DASH, "2">>, <<"1", DASH, "3">>, <<"2", DASH, "2">>,
      <<"3", DASH, "1">>, <<"0", DASH, "1">>, <<"3", DASH, "4">>,
      <<"2", COMMA, "1">>, <<"3", COMMA, "1">>, <<"1", COMMA, "1">>,
      <<"1", DASH, "3", COMMA, "2">>, <<"1", COMMA, "4">>, <<"1", COMMA>>,
      <<>>, <<"x">>, <<DASH, "1">>, <<"1", DASH>>, <<"1", DASH, "2", DASH, "3">>,
      <<"1", " ", "2">>, <<" ", "2">>, <<"1", " ", DASH, " ", "2">>,
      <<"q">>, <<"Q">>, <<" ", "q", " ">>, <<"a", "l", "l">>, <<"A", "L", "L">>,
      <<"a", "l", "l", " ">> }

\* ",".join(parts)
RECURSIVE Join(_)
Join(parts) ==
    IF Len(parts) = 1 THEN parts[1]
    ELSE parts[1] \o <<COMMA>> \o Join(Tail(parts))

\* The selection lines under SpecSelect: up to MaxJoined lines of the pool,
\* joined by commas.
Lines == UNION {{Join(ps) : ps \in [1..n -> TypedPool]} : n \in 1..MaxJoined}

\* The selection lines of a whole run of main.
MainLines ==
    { <<"q">>, <<" ", "q">>, <<"Q">>, <<"a", "l", "l">>, <<"1">>, <<"2", COMMA, "1">>,
      <<"1", COMMA, "1">>, <<"1", DASH, "2">>, <<"3", DASH, "1">>, <<"3">>,
      <<"x">>, <<>> }

\* The answers to "Install all? (y/n)".
Responses ==
    { <<"y">>, <<"n">>, <<>>, <<" ", "Y", "e", "s">>, <<"n", "o">>, <<"x", "y">> }

\* What install_font's two subprocess.run calls can do: both succeed; one
\* exits non-zero (CalledProcessError, a SubprocessError); the command is
\* not found (FileNotFoundError); another OSError (e.g. PermissionError),
\* which install_font does not catch.
InstallEvents == {"ok", "nonzero", "notfound", "oserror"}

(* ---------------------------------------------------------------- state *)

VARIABLES
    args,             \* argparse's result: zip (given or not), gui, cli, install_all, auto
    GUI_AVAILABLE,    \* whether tkinter was imported (tk is None otherwise)
    stdin_isatty,     \* sys.stdin.isatty()
    archive,          \* the file at zip_path
    pc,               \* where main is
    auto_mode, use_cli, use_gui, zip_path,
    temp_dir,         \* "none", "exists" (inside the with block) or "removed"
    scratch,          \* the files under temp_dir
    font_files, install_all, fonts_to_install,
    selection,        \* the line a selection prompt acted on (a line that
                      \* select_fonts_cli rejects is overwritten by the next
                      \* input() before anything reads it, and is not kept)
    in_try,           \* select_fonts_cli was called inside main's try (line 405)
    successful, failed,
    exit_status,      \* "running", "exit0", "exit1" or "traceback"
    inputs,           \* every read from the operator, in order
    cli_errors,       \* the lines select_fonts_cli rejected
    printed,          \* the messages printed
    installed,        \* the paths install_font was called with, in order
    outcomes          \* what each install_font call met

envVars  == <<args, GUI_AVAILABLE, stdin_isatty, archive>>
modeVars == <<auto_mode, use_cli, use_gui, zip_path>>
loopVars == <<successful, failed, installed, outcomes>>
selVars  == <<fonts_to_install, selection, in_try, cli_errors>>

vars ==
    <<envVars, modeVars, loopVars, selVars, pc, temp_dir, scratch, font_files,
      install_all, exit_status, inputs, printed>>

NoLine == <<"<none>">>

ArgSets == [zip : BOOLEAN, gui : BOOLEAN, cli : BOOLEAN, install_all : BOOLEAN, auto : BOOLEAN]

\* The locals of main before line 281.
InitLocals ==
    /\ auto_mode = FALSE /\ use_cli = FALSE /\ use_gui = FALSE /\ zip_path = ""
    /\ temp_dir = "none" /\ scratch = {}
    /\ font_files = <<>> /\ install_all = FALSE /\ fonts_to_install = <<>>
    /\ selection = NoLine /\ in_try = FALSE
    /\ successful = 0 /\ failed = 0
    /\ exit_status = "running"
    /\ inputs = <<>> /\ cli_errors = 0 /\ printed = {}
    /\ installed = <<>> /\ outcomes = <<>>

Init ==
    /\ args \in ArgSets
    /\ GUI_AVAILABLE \in BOOLEAN
    /\ stdin_isatty \in BOOLEAN
    /\ archive \in MainArchives
    /\ pc = "main"
    /\ InitLocals

(* -------------------------------------------------------------- actions *)

\* A mutant of the with statement: the directory is left behind.
LeaveWithLeak(t) == t

\* Leaving `with tempfile.TemporaryDirectory() as temp_dir` (line 343), by
\* falling off its end, by sys.exit or by an exception: the directory is
\* removed if the block was entered.
LeaveWith(t) == IF t = "exists" THEN "removed" ELSE t

\* sys.exit(code), the end of main, or an uncaught exception.
Exit(status) ==
    /\ pc' = "done"
    /\ exit_status' = status
    /\ temp_dir' = LeaveWith(temp_dir)

\* Lines 281-294.
Mode ==
    /\ pc = "main"
    /\ auto_mode' = args.auto
    /\ use_cli' = IF args.auto THEN TRUE ELSE (args.cli \/ ~GUI_AVAILABLE)
    /\ use_gui' = IF args.auto THEN FALSE
                  ELSE ~use_cli' /\ (args.gui \/ GUI_AVAILABLE) /\ GUI_AVAILABLE
    /\ zip_path' = IF args.zip THEN "given" ELSE ""
    /\ pc' = "get_zip"
    /\ UNCHANGED <<envVars, loopVars, selVars, temp_dir, scratch, font_files,
                   install_all, exit_status, inputs, printed>>

\* Lines 296-314: the file dialog.
ZipDialog ==
    /\ pc = "get_zip" /\ use_gui /\ zip_path = ""
    /\ \E r \in {"chosen", "cancelled", "error"} :
        /\ zip_path' = IF r = "chosen" THEN "chosen" ELSE ""
        /\ use_cli' = IF r = "error" THEN TRUE ELSE use_cli
        /\ use_gui' = IF r = "error" THEN FALSE ELSE use_gui
        /\ inputs' = IF r = "error" THEN inputs ELSE Append(inputs, "zip_dialog")
        /\ printed' = IF r = "error" THEN printed \cup {"dialog_failed"} ELSE printed
    /\ pc' = "zip_check"
    /\ UNCHANGED <<envVars, auto_mode, loopVars, selVars, temp_dir, scratch,
                   font_files, install_all, exit_status>>

DialogDone == pc = "zip_check" \/ (pc = "get_zip" /\ ~(use_gui /\ zip_path = ""))

\* Lines 316-318.
NoZipExit ==
    /\ DialogDone /\ zip_path = "" /\ ~use_cli
    /\ printed' = printed \cup {"no_zip_selected"}
    /\ Exit("exit0")
    /\ UNCHANGED <<envVars, modeVars, loopVars, selVars, scratch, font_files,
                   install_all, inputs>>

\* Lines 320-323.
AutoNoZip ==
    /\ DialogDone /\ zip_path = "" /\ use_cli /\ auto_mode
    /\ printed' = printed \cup {"auto_needs_zip"}
    /\ Exit("exit1")
    /\ UNCHANGED <<envVars, modeVars, loopVars, selVars, scratch, font_files,
                   install_all, inputs>>

\* Lines 325-334: the path is typed, left empty, or stdin is at its end.
ZipPrompt ==
    /\ DialogDone /\ zip_path = "" /\ use_cli /\ ~auto_mode
    /\ inputs' = Append(inputs, "zip_prompt")
    /\ \E r \in {"path", "empty", "eof"} :
        IF r = "path"
        THEN /\ zip_path' = "typed" /\ pc' = "validate"
             /\ UNCHANGED <<printed, exit_status, temp_dir>>
        ELSE /\ printed' = printed \cup {IF r = "empty" THEN "no_zip_specified"
                                                        ELSE "noninteractive_needs_zip"}
             /\ Exit(IF r = "empty" THEN "exit0" ELSE "exit1")
             /\ UNCHANGED zip_path
    /\ UNCHANGED <<envVars, auto_mode, use_cli, use_gui, loopVars, selVars, scratch,
                   font_files, install_all>>

\* Lines 337-343: the path is checked and the scratch directory created.
Validate ==
    /\ (DialogDone /\ zip_path # "") \/ pc = "validate"
    /\ \E isfile \in BOOLEAN :
        IF isfile
        THEN /\ temp_dir' = "exists" /\ pc' = "extract"
             /\ UNCHANGED <<printed, exit_status>>
        ELSE /\ printed' = printed \cup {"file_not_found"}
             /\ Exit("exit1")
    /\ UNCHANGED <<envVars, modeVars, loopVars, selVars, scratch, font_files,
                   install_all, inputs>>

\* extract_zip(zip_path, temp_dir) (lines 43-77): what it can leave in the
\* scratch directory and return, one result per os.walk order.  BadZipFile
\* and every other Exception are caught and [] is returned.
extract_zip(a) ==
    IF a.kind = "zip"
    THEN {[files |-> a.entries, fonts |-> ScanFonts(w), said |-> "none"] :
            w \in WalkOrders(a.entries)}
    ELSE IF a.kind = "notzip"
    THEN {[files |-> {}, fonts |-> <<>>, said |-> "not_a_zip"]}
    ELSE {[files |-> a.done, fonts |-> <<>>, said |-> "extract_error"]}

\* Lines 344-345.
Extract ==
    /\ pc = "extract"
    /\ \E r \in extract_zip(archive) :
        /\ scratch' = r.files
        /\ printed' = IF r.said = "none" THEN printed ELSE printed \cup {r.said}
        /\ font_files' = r.fonts
    /\ pc' = "extracted"
    /\ UNCHANGED <<envVars, modeVars, loopVars, selVars, temp_dir, install_all,
                   exit_status, inputs>>

\* A mutant of the empty check: an empty list goes on to the question.
NoFontsFoundNever(fonts) == FALSE

\* Line 347: `if not font_files`
NoFontsFound(fonts) == fonts = <<>>

\* Lines 347-355 (the message box may fail; the message is printed anyway).
NoFonts ==
    /\ pc = "extracted" /\ NoFontsFound(font_files)
    /\ printed' = printed \cup {"no_fonts"}
    /\ Exit("exit1")
    /\ UNCHANGED <<envVars, modeVars, loopVars, selVars, scratch, font_files,
                   install_all, inputs>>

\* A mutant of line 360: --install-all is not read.
InstallAllAutoOnly(a, auto) == auto

\* Line 360: install_all = args.install_all or auto_mode
InstallAllFlag(a, auto) == a.install_all \/ auto

\* Lines 357-362.
Found ==
    /\ pc = "extracted" /\ ~NoFontsFound(font_files)
    /\ install_all' = InstallAllFlag(args, auto_mode)
    /\ pc' = IF install_all' THEN "select"
             ELSE IF use_gui THEN "ask_gui"
             ELSE IF use_cli /\ ~auto_mode THEN "ask_cli"
             ELSE "select"
    /\ UNCHANGED <<envVars, modeVars, loopVars, selVars, temp_dir, scratch,
                   font_files, exit_status, inputs, printed>>

\* Lines 363-374: the yes/no message box, which may fail.
AskGui ==
    /\ pc = "ask_gui"
    /\ \E r \in {"yes", "no", "error"} :
        /\ install_all' = (r = "yes")
        /\ use_cli' = IF r = "error" THEN TRUE ELSE use_cli
        /\ use_gui' = IF r = "error" THEN FALSE ELSE use_gui
        /\ inputs' = IF r = "error" THEN inputs ELSE Append(inputs, "ask_gui")
        /\ printed' = IF r = "error" THEN printed \cup {"gui_error"} ELSE printed
    /\ pc' = IF use_cli' /\ ~auto_mode THEN "ask_cli" ELSE "select"
    /\ UNCHANGED <<envVars, auto_mode, zip_path, loopVars, selVars, temp_dir,
                   scratch, font_files, exit_status>>

EOF_LINE == <<"<eof>">>

\* Lines 376-390: input() raises EOFError at the end of a terminal's input
\* (install all by default); readline() returns "" there.
AskCli ==
    /\ pc = "ask_cli" /\ use_cli /\ ~auto_mode
    /\ inputs' = Append(inputs, "ask_cli")
    /\ \E response \in Responses \cup {EOF_LINE} :
        /\ response = EOF_LINE => stdin_isatty
        /\ install_all' = IF response = EOF_LINE THEN TRUE
                          ELSE StartsWith(Lower(Strip(response)), <<"y">>)
        /\ printed' = IF response = EOF_LINE THEN printed \cup {"noninteractive_all"}
                      ELSE printed
    /\ pc' = "select"
    /\ UNCHANGED <<envVars, modeVars, loopVars, selVars, temp_dir, scratch,
                   font_files, exit_status>>

\* Lines 393-407: which selector runs.
Select ==
    /\ pc = "select"
    /\ IF install_all \/ auto_mode
       THEN /\ fonts_to_install' = font_files
            /\ pc' = "check_empty"
            /\ printed' = IF install_all THEN printed ELSE printed \cup {"auto_all"}
            /\ UNCHANGED in_try
       ELSE /\ pc' = IF use_gui THEN "gui_select"
                     ELSE IF stdin_isatty THEN "cli_prompt" ELSE "piped_select"
            /\ in_try' = (~use_gui /\ stdin_isatty)
            /\ UNCHANGED <<fonts_to_install, printed>>
    /\ UNCHANGED <<envVars, modeVars, loopVars, selection, cli_errors, temp_dir,
                   scratch, font_files, install_all, exit_status, inputs>>

\* The increasing sequence of the elements of a set of numbers.
RECURSIVE Ascending(_)
Ascending(S) ==
    IF S = {} THEN <<>>
    ELSE LET m == CHOOSE x \in S : \A y \in S : x <= y
         IN  <<m>> \o Ascending(S \ {m})

\* select_fonts_gui (lines 124-197): the operator confirms a set of rows
\* (curselection() gives them in increasing order), cancels or closes the
\* window, or the toolkit fails and select_fonts_cli takes over.
GuiSelect ==
    /\ pc = "gui_select"
    /\ \/ /\ GUI_AVAILABLE
          /\ \E rows \in SUBSET (0..(Len(font_files) - 1)) :
                fonts_to_install' = PickFonts(font_files, Ascending(rows))
          /\ inputs' = Append(inputs, "select_gui_ok")
          /\ pc' = "check_empty"
          /\ UNCHANGED printed
       \/ /\ GUI_AVAILABLE
          /\ fonts_to_install' = <<>>
          /\ inputs' = Append(inputs, "select_gui_cancel")
          /\ pc' = "check_empty"
          /\ UNCHANGED printed
       \/ /\ printed' = printed \cup {"gui_fallback"}
          /\ pc' = "cli_prompt"
          /\ UNCHANGED <<fonts_to_install, inputs>>
    /\ UNCHANGED <<envVars, modeVars, loopVars, selection, in_try, cli_errors,
                   temp_dir, scratch, font_files, install_all, exit_status>>

\* One pass of the loop of select_fonts_cli (lines 218-250) on a typed line.
CliPrompt(typed) ==
    /\ pc = "cli_prompt"
    /\ \E line \in typed :
        LET r == CliPass(font_files, line) IN
        /\ r.kind = "again" => cli_errors < MaxRetries
        /\ inputs' = Append(inputs, "select_cli")
        /\ IF r.kind = "return"
           THEN /\ selection' = line
                /\ fonts_to_install' = r.fonts
                /\ pc' = "check_empty"
                /\ UNCHANGED <<cli_errors, printed>>
           ELSE /\ cli_errors' = cli_errors + 1
                /\ printed' = printed \cup {r.said}
                /\ UNCHANGED <<fonts_to_install, pc, selection>>
    /\ UNCHANGED <<envVars, modeVars, loopVars, in_try, temp_dir, scratch,
                   font_files, install_all, exit_status>>

\* input() raises EOFError in select_fonts_cli, which does not catch it: main
\* does (lines 435-437) when it called select_fonts_cli itself; the call
\* from select_fonts_gui (line 400) is outside that try.
CliEof ==
    /\ pc = "cli_prompt"
    /\ inputs' = Append(inputs, "select_cli_eof")
    /\ IF in_try
       THEN /\ fonts_to_install' = font_files
            /\ printed' = printed \cup {"noninteractive_all"}
            /\ pc' = "check_empty"
            /\ UNCHANGED <<exit_status, temp_dir>>
       ELSE /\ Exit("traceback")
            /\ UNCHANGED <<fonts_to_install, printed>>
    /\ UNCHANGED <<envVars, modeVars, loopVars, selection, in_try, cli_errors,
                   scratch, font_files, install_all>>

\* Lines 408-434: one line is read with readline().
PipedSelect(typed) ==
    /\ pc = "piped_select"
    /\ \E line \in typed :
        LET r == PipedPass(font_files, line) IN
        /\ selection' = line
        /\ fonts_to_install' = r.fonts
        /\ printed' = IF r.said = "none" THEN printed ELSE printed \cup {r.said}
    /\ inputs' = Append(inputs, "select_piped")
    /\ pc' = "check_empty"
    /\ UNCHANGED <<envVars, modeVars, loopVars, in_try, cli_errors, temp_dir,
                   scratch, font_files, install_all, exit_status>>

\* Lines 439-447.
CheckEmpty ==
    /\ pc = "check_empty"
    /\ IF fonts_to_install = <<>>
       THEN /\ printed' = printed \cup {"no_selection"}
            /\ Exit("exit0")
            /\ UNCHANGED <<successful, failed>>
       ELSE /\ successful' = 0 /\ failed' = 0
            /\ pc' = "install"
            /\ UNCHANGED <<printed, exit_status, temp_dir>>
    /\ UNCHANGED <<envVars, modeVars, installed, outcomes, selVars, scratch,
                   font_files, install_all, inputs>>

\* A mutant of install_font: a non-zero exit is not caught.
InstallFontUncaught(event) ==
    CASE event = "ok"       -> "true"
      [] event = "nonzero"  -> "raise"
      [] event = "notfound" -> "true"
      [] OTHER              -> "raise"

\* install_font (lines 80-111): True, False, or an exception it lets through.
install_font(event) ==
    CASE event = "ok"       -> "true"
      [] event = "nonzero"  -> "false"
      [] event = "notfound" -> "true"
      [] OTHER              -> "raise"

\* Lines 448-453: one pass of the install loop.
Install ==
    /\ pc = "install" /\ Len(installed) < Len(fonts_to_install)
    /\ \E event \in InstallEvents :
        LET font == fonts_to_install[Len(installed) + 1]
            r    == install_font(event)
        IN  /\ installed' = Append(installed, font.path)
            /\ outcomes' = Append(outcomes, event)
            /\ successful' = IF r = "true" THEN successful + 1 ELSE successful
            /\ failed' = IF r = "false" THEN failed + 1 ELSE failed
            /\ IF r = "raise"
               THEN Exit("traceback")
               ELSE UNCHANGED <<pc, exit_status, temp_dir>>
    /\ UNCHANGED <<envVars, modeVars, selVars, scratch, font_files, install_all,
                   inputs, printed>>

\* Lines 455-465: the summary, then the end of the with block and of main.
Summary ==
    /\ pc = "install" /\ Len(installed) = Len(fonts_to_install)
    /\ printed' = printed \cup {"summary"}
    /\ Exit("exit0")
    /\ UNCHANGED <<envVars, modeVars, loopVars, selVars, scratch, font_files,
                   install_all, inputs>>

Next ==
    \/ Mode \/ ZipDialog \/ NoZipExit \/ AutoNoZip \/ ZipPrompt \/ Validate
    \/ Extract \/ NoFonts \/ Found \/ AskGui \/ AskCli \/ Select \/ GuiSelect
    \/ CliPrompt(MainLines) \/ CliEof \/ PipedSelect(MainLines)
    \/ CheckEmpty \/ Install \/ Summary

\* A whole run of main.
Spec == Init /\ [][Next]_vars

(* ------------------------------------------- the extractor on its own *)

\* A run with --auto --zip FILE over every archive of the pool, up to the
\* check of what extract_zip returned.
InitExtract ==
    /\ args = [zip |-> TRUE, gui |-> FALSE, cli |-> FALSE, install_all |-> FALSE,
               auto |-> TRUE]
    /\ GUI_AVAILABLE = FALSE
    /\ stdin_isatty = FALSE
    /\ archive \in Archives
    /\ pc = "main"
    /\ InitLocals

NextExtract == Mode \/ Validate \/ Extract \/ NoFonts \/ Found

SpecExtract == InitExtract /\ [][NextExtract]_vars

(* -------------------------------------------- the selectors on their own *)

CandidateFiles == << <<F_A_TTF>>, <<D_SUB, F_B_OTF>>, <<D_SUB, D_DEEP, F_C_TTC>>,
                     <<D_SUB, D_DEEP, F_D_DFONT>> >>

\* A run with --zip FILE and without --install-all or --auto, over archives
\* of 1..MaxFonts fonts and every line of Lines, up to the check of what
\* the selector returned.
InitSelect ==
    /\ args \in {a \in ArgSets : a.zip /\ ~a.auto /\ ~a.install_all /\ ~a.gui}
    /\ GUI_AVAILABLE \in BOOLEAN
    /\ stdin_isatty \in BOOLEAN
    /\ archive \in {ZipArchive({CandidateFiles[k] : k \in 1..n}) : n \in 1..MaxFonts}
    /\ pc = "main"
    /\ InitLocals

NextSelect ==
    \/ Mode \/ Validate \/ Extract \/ Found \/ AskGui \/ AskCli \/ Select \/ GuiSelect
    \/ CliPrompt(Lines) \/ CliEof \/ PipedSelect(Lines) \/ CheckEmpty

SpecSelect == InitSelect /\ [][NextSelect]_vars

(* --------------------------------------------------------------- claims *)

\* The position of a candidate in a list of pairwise distinct candidates.
PositionIn(fonts, f) == CHOOSE k \in 1..Len(fonts) : fonts[k] = f

NoRepeats(w) == \A i, j \in 1..Len(w) : i # j => w[i] # w[j]

Count(w, x) == Cardinality({k \in 1..Len(w) : w[k] = x})

LastInput == IF inputs = <<>> THEN "none" ELSE inputs[Len(inputs)]

\* A selector has handed its list to main.
Selected == pc \in {"check_empty", "install"} \/ (pc = "done" /\ LastInput # "none"
                /\ LastInput \in {"select_cli", "select_piped", "select_gui_ok",
                                   "select_gui_cancel"})

\* The line the selector acted on names numbers only, all of them in 1..N.
InBounds(sel) ==
    ~ParseRaises(sel) /\ ~OutOfBounds(SelectedIndices(sel), Len(font_files))

\* C1: after a selection typed as indices and ranges (interactive or piped),
\* the fonts to install are in the relative order of the candidate list,
\* whatever the order the indices were typed in.
C1_CandidateOrder ==
    (selection # NoLine /\ Selected) =>
        \A i, j \in 1..Len(fonts_to_install) :
            i < j => PositionIn(font_files, fonts_to_install[i])
                        <= PositionIn(font_files, fonts_to_install[j])

\* C2: after a typed selection each candidate is selected at most once, and
\* no font is passed to install_font twice in one run.
C2_NoDuplicates ==
    /\ (selection # NoLine /\ Selected) => NoRepeats(fonts_to_install)
    /\ NoRepeats(installed)

\* main took the piped branch and has read its line.
PipedDone == LastInput = "select_piped"

CliReturned == LastInput = "select_cli" /\ pc # "cli_prompt"

C5_ScratchLifetime ==
    /\ pc = "done" => temp_dir # "exists"
    /\ temp_dir = "removed" => pc = "done"
    /\ pc \in {"extract", "extracted", "ask_gui", "ask_cli", "select", "gui_select",
               "cli_prompt", "piped_select", "check_empty", "install"}
          => temp_dir = "exists"
    /\ (pc = "done" /\ "summary" \in printed) =>
          /\ Len(installed) = Len(fonts_to_install)
          /\ successful + failed = Len(fonts_to_install)

\* C5's case: the run ended on an exception in the install loop, after one
\* font had been installed, and the scratch directory is gone.
C5_Witness ==
    /\ pc = "done" /\ temp_dir = "removed" /\ exit_status = "traceback"
    /\ Len(installed) = 2 /\ scratch # {}

\* main has called extract_zip and it has returned [].
ExtractedNothing == pc \notin {"main", "get_zip", "zip_check", "validate", "extract"}
                        /\ temp_dir # "none" /\ font_files = <<>>

\* C6: when extract_zip returns [] (no font entries, an empty archive, not
\* a ZIP file, an I/O error), the run prints the no-fonts message and exits
\* with code 1, with no install-all question, no selector and no
\* install_font call; extract_zip does not raise to main.
C6_NoFontsExit ==
    /\ pc = "extracted" => exit_status = "running"
    /\ ExtractedNothing =>
        /\ inputs \in {<<>>, <<"zip_dialog">>, <<"zip_prompt">>}
        /\ installed = <<>> /\ fonts_to_install = <<>> /\ selection = NoLine
        /\ pc \in {"extracted", "done"}
        /\ pc = "done" => (exit_status = "exit1" /\ "no_fonts" \in printed)
    /\ (pc = "done" /\ temp_dir # "none" /\ archive.kind # "zip") =>
          (ExtractedNothing /\ exit_status = "exit1")

\* C6's case: the extraction failed half-way and the run exited with 1.
C6_Witness ==
    /\ pc = "done" /\ archive.kind = "ioerror" /\ scratch # {}
    /\ exit_status = "exit1" /\ "no_fonts" \in printed

\* "q" was the line a selection prompt acted on.
QuitTyped == selection # NoLine /\ Strip(selection) = Q_LINE

\* C7: "q" at a selection prompt (the select_fonts_cli loop, also after
\* rejected lines, or the piped line) gives an empty selection, and the run
\* exits with code 0 without a call of install_font.
C7_QuitExitsZero ==
    QuitTyped =>
        /\ fonts_to_install = <<>> /\ installed = <<>>
        /\ pc \in {"check_empty", "done"}
        /\ pc = "done" => (exit_status = "exit0" /\ "no_selection" \in printed)

\* C7's case: "q" typed after two rejected lines ended the run with 0.
C7_Witness ==
    /\ QuitTyped /\ pc = "done" /\ exit_status = "exit0"
    /\ cli_errors = 2 /\ LastInput = "select_cli"

\* The install_font calls so far that met the event e.
Met(e) == Count(outcomes, e)

\* C8: install_font is called once for each entry of the selection list,
\* one after the other in the order of the list; a registration command that
\* exits non-zero counts as failed and the loop goes on, so that at the
\* summary successful + failed is the number of selected fonts.
C8_InstallLoop ==
    /\ Len(installed) = Len(outcomes)
    /\ Len(installed) <= Len(fonts_to_install)
    /\ \A k \in 1..Len(installed) : installed[k] = fonts_to_install[k].path
    /\ failed = Met("nonzero")
    /\ successful = Met("ok") + Met("notfound")
    /\ \A k \in 1..Len(outcomes) :
          (outcomes[k] = "nonzero" /\ k = Len(outcomes)) => exit_status # "traceback"
    /\ (pc = "done" /\ installed # <<>> /\ exit_status # "traceback") =>
          /\ "summary" \in printed /\ exit_status = "exit0"
          /\ Len(installed) = Len(fonts_to_install)
          /\ successful + failed = Len(fonts_to_install)

\* C8's case: the first of two fonts failed, the second was installed, and
\* the summary counts one of each.
C8_Witness ==
    /\ pc = "done" /\ "summary" \in printed
    /\ outcomes = <<"nonzero", "ok">> /\ failed = 1 /\ successful = 1
    /\ installed[1] # installed[2]

\* The inputs that are an install-all question or a selection.
AskedOrSelected ==
    \E k \in 1..Len(inputs) :
        inputs[k] \in {"ask_gui", "ask_cli", "select_gui_ok", "select_gui_cancel",
                       "select_cli", "select_cli_eof", "select_piped"}

\* C9: with --install-all or --auto the list handed to the install loop is
\* the list extract_zip returned, and neither the install-all question nor
\* a selection is read; with --auto nothing is read at all, and without
\* --zip the run ends with exit code 1 before a scratch directory exists.
C9_InstallAllIdentity ==
    /\ (args.install_all \/ args.auto) =>
        /\ ~AskedOrSelected
        /\ pc \notin {"ask_gui", "ask_cli", "gui_select", "cli_prompt", "piped_select"}
        /\ pc \in {"check_empty", "install"} => fonts_to_install = font_files
        /\ (pc = "done" /\ font_files # <<>>) => fonts_to_install = font_files
        /\ installed # <<>> =>
              \A k \in 1..Len(installed) : installed[k] = font_files[k].path
    /\ args.auto => inputs = <<>>
    /\ (args.auto /\ ~args.zip /\ pc = "done") =>
          (exit_status = "exit1" /\ temp_dir = "none")

\* C9's case: --install-all without --auto, the path typed at the prompt,
\* and both extracted fonts on their way to install_font.
C9_Witness ==
    /\ args.install_all /\ ~args.auto /\ inputs = <<"zip_prompt">>
    /\ pc = "install" /\ Len(font_files) = 2 /\ fonts_to_install = font_files
    /\ Len(installed) = 2

\* C9's other case: --auto without --zip.
C9_WitnessAuto ==
    args.auto /\ ~args.zip /\ pc = "done" /\ exit_status = "exit1"

\* The names of the pool that end in .ttf, .otf, .ttc or .dfont, whatever
\* the case of their letters.
FontNames == {F_A_TTF, F_B_OTF, F_C_TTC, F_D_DFONT}

FontEntries(a) == {e \in a.entries : e[Len(e)] \in FontNames}

\* C10: for an archive (entries with pairwise distinct paths) extracted into
\* the fresh scratch directory, extract_zip returns one candidate for each
\* entry whose file name ends in a font extension, compared without case,
\* at any depth, with its path under the scratch directory and its file
\* name, and no candidate for any other entry.
C10_ExtractCount ==
    (archive.kind = "zip" /\ pc \notin {"main", "get_zip", "validate", "extract"}
        /\ temp_dir # "none") =>
        /\ Len(font_files) = Cardinality(FontEntries(archive))
        /\ {font_files[k].path : k \in 1..Len(font_files)}
              = {TempRoot \o e : e \in FontEntries(archive)}
        /\ \A k \in 1..Len(font_files) :
              /\ font_files[k].name = font_files[k].path[Len(font_files[k].path)]
              /\ SubSeq(font_files[k].path, 1, Len(TempRoot)) = TempRoot
        /\ scratch = archive.entries

\* C10's case: three entries, two of them fonts: one in upper case and one
\* two directories down, under a directory named like a font.
C10_Witness ==
    /\ pc = "extracted" /\ archive.kind = "zip"
    /\ archive.entries = {<<F_B_OTF>>, <<D_SUB, D_DEEP, F_TTF>>, <<D_SUB, D_DEEP, F_C_TTC>>}
    /\ Len(font_files) = 2

\* What select_fonts_cli would do with the line the piped branch acted on.
CliOnSame == CliPass(font_files, selection)

\* C11: the piped branch of main and select_fonts_cli accept one grammar:
\* when the piped branch has acted on a line that select_fonts_cli returns
\* on without asking again ('all', 'q', indices and ranges in bounds, in
\* any letter case and with spaces around), the list it hands to main is
\* the list select_fonts_cli returns for that line and those candidates.
C11_SameGrammar ==
    (PipedDone /\ CliOnSame.kind = "return") =>
        fonts_to_install = CliOnSame.fonts

\* The run is over, extract_zip had returned candidates, and install_font
\* was never called.
EndedWithoutInstall == pc = "done" /\ font_files # <<>> /\ installed = <<>>

\* The line a selector acted on, as the selector compares and parses it:
\* stripped, and lower-cased by select_fonts_cli only.
ActedOn == IF PipedDone THEN Strip(selection) ELSE Lower(Strip(selection))

\* The operator entered the quit line at a selection prompt.
QuitEntered == selection # NoLine /\ ActedOn = Q_LINE

\* The operator closed the dialog with Cancel.
GuiCancelled == LastInput = "select_gui_cancel"

\* The line parses and every one of its ranges is empty (start above end).
EmptyRanges ==
    selection # NoLine /\ ~ParseRaises(ActedOn) /\ SelectedIndices(ActedOn) = <<>>

C12_WitnessGui ==
    EndedWithoutInstall /\ exit_status = "exit0" /\ LastInput = "select_gui_ok"

====
